---- MODULE Spec2Model ----
(***************************************************************************)
(* Model of the OpenAI settings plugin: the OpenAIService (connectivity    *)
(* prober and settings gateway) with its collaborators: the BrainDrive API *)
(* service (remote key-value store), the browser's localStorage and the    *)
(* OpenAI "list models" endpoint reached through fetch.                    *)
(*                                                                         *)
(* JavaScript values are records tagged by their type in field t.  A       *)
(* property that is absent from an object reads as Undef, as in JS.        *)
(* Numbers that stand for temperatures are counted in tenths (7 is 0.7).   *)
(***************************************************************************)
EXTENDS Integers, Sequences, FiniteSets, TLC

\* ------------------------------------------------------------ JS values

Undef == [t |-> "undefined"]
Null == [t |-> "null"]
Str(s) == [t |-> "string", s |-> s]
Num(n) == [t |-> "number", n |-> n, nan |-> FALSE]
NaN == [t |-> "number", n |-> 0, nan |-> TRUE]
Arr(a) == [t |-> "array", a |-> a]

\* An error object (instanceof Error) with its message.
Error(msg) == [t |-> "error", message |-> msg]

\* The result of evaluating a piece of code: it returns a value or throws.
Return(v) == [k |-> "return", v |-> v]
Throw(e) == [k |-> "throw", e |-> e]

\* JS truthiness: '', 0, NaN, null and undefined are falsy.
Truthy(v) ==
  CASE v.t = "undefined" -> FALSE
    [] v.t = "null" -> FALSE
    [] v.t = "string" -> v.s # ""
    [] v.t = "number" -> ~v.nan /\ v.n # 0
    [] OTHER -> TRUE

\* The typeof operator.
TypeOf(v) == IF v.t \in {"null", "array", "error"} THEN "object" ELSE v.t

\* An OpenAISettings-shaped object; a field that is Undef is an absent property.
Settings(apiKey, organizationId, model, maxTokens, temperature) ==
  [t |-> "object", apiKey |-> apiKey, organizationId |-> organizationId,
   model |-> model, maxTokens |-> maxTokens, temperature |-> temperature]

SettingsFields == {"apiKey", "organizationId", "model", "maxTokens", "temperature"}

\* data.name for a value that is neither null nor undefined: the property of
\* an object, undefined on a primitive.
Prop(data, name) ==
  IF data.t = "object" /\ name \in DOMAIN data THEN data[name] ELSE Undef

\* ------------------------------------------------------------ JSON

\* A string that holds JSON text, kept as the value the text denotes.
JSONText(v) == [t |-> "string", s |-> "json", v |-> v]

\* JSON.stringify of one property value: a non-finite number is written as
\* null, an undefined property is left out.
JSONValue(v) == IF v.t = "number" /\ v.nan THEN Null ELSE v

\* JSON.stringify(settings) for a settings object.
JSONstringify(o) ==
  JSONText([f \in DOMAIN o |-> IF f = "t" THEN o.t ELSE JSONValue(o[f])])

\* JSON.parse(text): the value of JSON text, a SyntaxError for anything else.
JSONparse(text) ==
  IF "v" \in DOMAIN text THEN Return(text.v)
  ELSE Throw(Error("Unexpected token in JSON"))

\* ------------------------------------------------------------ strings

\* The character at position i of the string s.
Ch(s, i) == SubSeq(s, i, i)

\* The string s from position i on.
From(s, i) == SubSeq(s, i, Len(s))

Digits == {"0", "1", "2", "3", "4", "5", "6", "7", "8", "9"}

Letters ==
  {"a", "b", "c", "d", "e", "f", "g", "h", "i", "j", "k", "l", "m",
   "n", "o", "p", "q", "r", "s", "t", "u", "v", "w", "x", "y", "z",
   "A", "B", "C", "D", "E", "F", "G", "H", "I", "J", "K", "L", "M",
   "N", "O", "P", "Q", "R", "S", "T", "U", "V", "W", "X", "Y", "Z"}

\* The character class [a-zA-Z0-9], for every character of s.
IsAlnum(s) == \A i \in 1..Len(s) : Ch(s, i) \in Digits \cup Letters

WhiteSpace == {" ", "\t", "\n"}

RECURSIVE trimStart(_)
trimStart(s) ==
  IF Len(s) > 0 /\ Ch(s, 1) \in WhiteSpace THEN trimStart(From(s, 2)) ELSE s

RECURSIVE trimEnd(_)
trimEnd(s) ==
  IF Len(s) > 0 /\ Ch(s, Len(s)) \in WhiteSpace
  THEN trimEnd(SubSeq(s, 1, Len(s) - 1)) ELSE s

\* String.prototype.trim.
trim(s) == trimEnd(trimStart(s))

\* The number of decimal digits s starts with.
LeadingDigits(s) ==
  CHOOSE k \in 0..Len(s) :
    /\ \A i \in 1..k : Ch(s, i) \in Digits
    /\ k = Len(s) \/ Ch(s, k + 1) \notin Digits

DigitVal(c) ==
  CASE c = "0" -> 0 [] c = "1" -> 1 [] c = "2" -> 2 [] c = "3" -> 3
    [] c = "4" -> 4 [] c = "5" -> 5 [] c = "6" -> 6 [] c = "7" -> 7
    [] c = "8" -> 8 [] c = "9" -> 9

\* The value of a string of decimal digits (0 for the empty string).
RECURSIVE DecValue(_)
DecValue(s) ==
  IF Len(s) = 0 THEN 0
  ELSE 10 * DecValue(SubSeq(s, 1, Len(s) - 1)) + DigitVal(Ch(s, Len(s)))

\* A string without its sign, and the sign.
Unsigned(s) == IF Len(s) > 0 /\ Ch(s, 1) \in {"+", "-"} THEN From(s, 2) ELSE s
Sign(s) == IF Len(s) > 0 /\ Ch(s, 1) = "-" THEN -1 ELSE 1

\* parseInt(string) for decimal input: leading white space and a sign are
\* skipped, the longest run of digits is read and whatever follows is ignored;
\* NaN when there is no digit.  (A 0x prefix, which switches parseInt to
\* base 16, is outside the inputs of the model.)
parseInt(string) ==
  LET s == Unsigned(trimStart(string))
      k == LeadingDigits(s)
  IN IF k = 0 THEN NaN
     ELSE Num(Sign(trimStart(string)) * DecValue(SubSeq(s, 1, k)))

\* parseFloat(string), in tenths: leading white space and a sign are skipped,
\* then digits, and a point with digits, are read and whatever follows is
\* ignored; NaN when there is no digit.  Fraction digits after the first must
\* be zeros to be exact here; exponents and Infinity are outside the inputs of
\* the model.
parseFloat(string) ==
  LET s == Unsigned(trimStart(string))
      k == LeadingDigits(s)
      point == Len(s) > k /\ Ch(s, k + 1) = "."
      m == IF point THEN LeadingDigits(From(s, k + 2)) ELSE 0
  IN IF k = 0 /\ m = 0 THEN NaN
     ELSE Num(Sign(trimStart(string))
              * (10 * DecValue(SubSeq(s, 1, k))
                 + (IF m > 0 THEN DigitVal(Ch(s, k + 2)) ELSE 0)))

\* Number.prototype.toString for an integer.
IntToString(n) == IF n < 0 THEN "-" \o ToString(-n) ELSE ToString(n)

\* Number.prototype.toString for a number held in tenths.
RECURSIVE TenthsToString(_)
TenthsToString(n) ==
  IF n < 0 THEN "-" \o TenthsToString(-n)
  ELSE IF n % 10 = 0 THEN ToString(n \div 10)
  ELSE ToString(n \div 10) \o "." \o ToString(n % 10)

\* ------------------------------------------------------------ utils: the form

\* An OpenAISettingsFormState: every field is a string.
FormState(apiKey, organizationId, model, maxTokens, temperature) ==
  [apiKey |-> apiKey, organizationId |-> organizationId, model |-> model,
   maxTokens |-> maxTokens, temperature |-> temperature]

ApiKeyBodyLength == 48
OrganizationIdMinLength == 20
MinTokens == 1
MaxTokens == 8192
MinTemperature == 0
MaxTemperature == 20   \* 2, in tenths

\* The pattern without its count of characters: /^sk-[a-zA-Z0-9]*$/.
MatchesApiKeyAnyLength(s) ==
  Len(s) >= 3 /\ SubSeq(s, 1, 3) = "sk-" /\ IsAlnum(From(s, 4))

\* /^sk-[a-zA-Z0-9]{48}$/.test(s)
MatchesApiKey(s) ==
  /\ Len(s) = 3 + ApiKeyBodyLength
  /\ SubSeq(s, 1, 3) = "sk-"
  /\ IsAlnum(From(s, 4))

\* /^[a-zA-Z0-9]{20,}$/.test(s)
MatchesOrganizationId(s) == Len(s) >= OrganizationIdMinLength /\ IsAlnum(s)

\* validateForm(formData): the error message of each field, Undef for none.
validateForm(formData) ==
  [apiKey |->
     IF trim(formData.apiKey) = "" THEN Str("API Key is required")
     ELSE IF ~MatchesApiKey(trim(formData.apiKey))
     THEN Str("Invalid API Key format. Should start with \"sk-\" and be 51 characters long")
     ELSE Undef,
   organizationId |->
     IF trim(formData.organizationId) # ""
        /\ ~MatchesOrganizationId(trim(formData.organizationId))
     THEN Str("Invalid Organization ID format") ELSE Undef,
   model |->
     IF formData.model = "" THEN Str("Model selection is required") ELSE Undef,
   maxTokens |->
     IF trim(formData.maxTokens) # ""
        /\ LET maxTokens == parseInt(formData.maxTokens)
           IN maxTokens.nan \/ maxTokens.n < MinTokens \/ maxTokens.n > MaxTokens
     THEN Str("Max tokens must be between 1 and 8192") ELSE Undef,
   temperature |->
     IF trim(formData.temperature) # ""
        /\ LET temperature == parseFloat(formData.temperature)
           IN temperature.nan \/ temperature.n < MinTemperature
              \/ temperature.n > MaxTemperature
     THEN Str("Temperature must be between 0 and 2") ELSE Undef]

\* hasValidationErrors(errors): the mapping has a key.
hasValidationErrors(errors) == \E k \in DOMAIN errors : errors[k] # Undef

\* formDataToSettings storing the organization id without looking at it.
formDataToSettingsKeepBlank(formData) ==
  Settings(Str(trim(formData.apiKey)),
           Str(trim(formData.organizationId)),
           Str(formData.model),
           IF trim(formData.maxTokens) # "" /\ ~parseInt(formData.maxTokens).nan
           THEN parseInt(formData.maxTokens) ELSE Undef,
           IF trim(formData.temperature) # "" /\ ~parseFloat(formData.temperature).nan
           THEN parseFloat(formData.temperature) ELSE Undef)

\* formDataToSettings storing the key as it was typed, white space included.
formDataToSettingsUntrimmed(formData) ==
  Settings(Str(formData.apiKey),
           IF trim(formData.organizationId) # ""
           THEN Str(trim(formData.organizationId)) ELSE Undef,
           Str(formData.model),
           IF trim(formData.maxTokens) # "" /\ ~parseInt(formData.maxTokens).nan
           THEN parseInt(formData.maxTokens) ELSE Undef,
           IF trim(formData.temperature) # "" /\ ~parseFloat(formData.temperature).nan
           THEN parseFloat(formData.temperature) ELSE Undef)

\* formDataToSettings(formData).
formDataToSettings(formData) ==
  Settings(Str(trim(formData.apiKey)),
           IF trim(formData.organizationId) # ""
           THEN Str(trim(formData.organizationId)) ELSE Undef,
           Str(formData.model),
           IF trim(formData.maxTokens) # "" /\ ~parseInt(formData.maxTokens).nan
           THEN parseInt(formData.maxTokens) ELSE Undef,
           IF trim(formData.temperature) # "" /\ ~parseFloat(formData.temperature).nan
           THEN parseFloat(formData.temperature) ELSE Undef)

\* value || fallback for a string-valued property.
OrElse(value, fallback) == IF Truthy(value) THEN value.s ELSE fallback

\* settingsToFormData testing the numbers for truth (settings.temperature ?
\* ... : '') instead of using ?., which loses a 0.
settingsToFormDataFalsyNumber(settings) ==
  FormState(OrElse(settings.apiKey, ""),
            OrElse(settings.organizationId, ""),
            OrElse(settings.model, "gpt-4o"),
            IF settings.maxTokens.t \in {"undefined", "null"} THEN ""
            ELSE IF settings.maxTokens.nan \/ settings.maxTokens.n = 0 THEN ""
            ELSE IntToString(settings.maxTokens.n),
            IF settings.temperature.t \in {"undefined", "null"} THEN ""
            ELSE IF settings.temperature.nan \/ settings.temperature.n = 0 THEN ""
            ELSE TenthsToString(settings.temperature.n))

\* settingsToFormData(settings).
settingsToFormData(settings) ==
  FormState(OrElse(settings.apiKey, ""),
            OrElse(settings.organizationId, ""),
            OrElse(settings.model, "gpt-4o"),
            IF settings.maxTokens.t \in {"undefined", "null"} THEN ""
            ELSE IF settings.maxTokens.nan THEN "NaN"
            ELSE IntToString(settings.maxTokens.n),
            IF settings.temperature.t \in {"undefined", "null"} THEN ""
            ELSE IF settings.temperature.nan THEN "NaN"
            ELSE TenthsToString(settings.temperature.n))

\* validateApiKey(apiKey) and validateOrganizationId(orgId) of the service.
validateApiKey(apiKey) == MatchesApiKey(apiKey)
validateOrganizationId(orgId) == MatchesOrganizationId(orgId)

\* ------------------------------------------------------------ validateSettings

allowedModels == {"gpt-4o", "gpt-4", "gpt-3.5-turbo", "gpt-4-turbo", "gpt-4o-mini"}

\* validateSettings without the check of the model against the allow-list.
validateSettingsTryNoAllowList(data) ==
  IF data.t \in {"null", "undefined"}
  THEN Throw(Error("Cannot read properties of " \o data.t))
  ELSE
    LET apiKey == Prop(data, "apiKey")
        model == Prop(data, "model")
        Keep(v, type) == IF Truthy(v) /\ TypeOf(v) = type THEN v ELSE Undef
    IN IF ~Truthy(apiKey) \/ TypeOf(apiKey) # "string"
       THEN Throw(Error("Invalid API key"))
       ELSE IF ~Truthy(model) \/ TypeOf(model) # "string"
       THEN Throw(Error("Invalid model selection"))
       ELSE Return(Settings(apiKey, Keep(Prop(data, "organizationId"), "string"), model,
                            Keep(Prop(data, "maxTokens"), "number"),
                            Keep(Prop(data, "temperature"), "number")))

\* The try block of validateSettings.
validateSettingsTry(data) ==
  IF data.t \in {"null", "undefined"}
  THEN Throw(Error("Cannot read properties of " \o data.t))
  ELSE
    LET apiKey == Prop(data, "apiKey")
        model == Prop(data, "model")
        organizationId == Prop(data, "organizationId")
        maxTokens == Prop(data, "maxTokens")
        temperature == Prop(data, "temperature")
        Keep(v, type) == IF Truthy(v) /\ TypeOf(v) = type THEN v ELSE Undef
    IN IF ~Truthy(apiKey) \/ TypeOf(apiKey) # "string"
       THEN Throw(Error("Invalid API key"))
       ELSE IF ~Truthy(model) \/ TypeOf(model) # "string"
       THEN Throw(Error("Invalid model selection"))
       ELSE IF model.s \notin allowedModels
       THEN Throw(Error("Invalid model selection"))
       ELSE Return(Settings(apiKey, Keep(organizationId, "string"), model,
                            Keep(maxTokens, "number"), Keep(temperature, "number")))

\* validateSettings(data): the validated settings, null on any failure.
validateSettings(data) ==
  LET r == validateSettingsTry(data) IN IF r.k = "throw" THEN Null ELSE r.v

\* ------------------------------------------------------------ localStorage

\* saveToLocalStorage that reports the write and leaves the item as it was.
saveToLocalStorageNoWrite(settings, ls, setItemThrows) ==
  IF setItemThrows
  THEN [out |-> Throw(Error("Storage error")), ls |-> ls]
  ELSE [out |-> Return(Undef), ls |-> ls]

\* saveToLocalStorage(settings) on a store holding ls; setItemThrows is the
\* store refusing the write (quota exceeded).  Gives the outcome and the store.
saveToLocalStorage(settings, ls, setItemThrows) ==
  IF setItemThrows
  THEN [out |-> Throw(Error("Storage error")), ls |-> ls]
  ELSE [out |-> Return(Undef), ls |-> JSONstringify(settings)]

\* loadFromLocalStorage() on a store holding ls; getItemThrows is the store
\* refusing the read.
loadFromLocalStorage(ls, getItemThrows) ==
  IF getItemThrows THEN Null
  ELSE IF ~Truthy(ls) THEN Null
  ELSE LET p == JSONparse(ls) IN
       IF p.k = "throw" THEN Null ELSE validateSettings(p.v)

\* ------------------------------------------------------------ bounds and inputs

\* Longest model list the endpoint returns.
MaxModels == 2

\* Invocations of the service that can be in flight together.
Slots == {"a", "b"}

ModelIds == {"gpt-4o", "gpt-4"}

P_full == Settings(Str("sk-A"), Str("org-1"), Str("gpt-4o"), Num(4096), Num(7))
P_zeroTemp == Settings(Str("sk-B"), Undef, Str("gpt-4-turbo"), Num(1), Num(0))
P_noModel == Settings(Str("sk-A"), Undef, Undef, Undef, Undef)
P_otherModel == Settings(Str("sk-A"), Undef, Str("gpt-5"), Undef, Undef)
P_emptyKey == Settings(Str(""), Str(""), Str("gpt-4o"), Num(4096), Num(7))
P_mistyped == Settings(Str("sk-C"), Num(3), Str("gpt-4o-mini"), Str("100"), Str("1"))

\* Settings objects handed to saveSettings.
SaveInputs == {P_full, P_zeroTemp}

\* What the remote settings resource can hold when the plugin starts: nothing,
\* or any data at all.
RemoteContents == {Undef, P_noModel, P_otherModel}

\* What localStorage can hold under the settings key when the plugin starts:
\* no item (getItem gives null), text that is not JSON, or JSON of any data.
LocalContents ==
  {Null, Str("{oops"), JSONText(P_emptyKey), JSONText(P_mistyped)}

\* ------------------------------------------------------------ state

VARIABLES
  apiPresent,    \* services.api was injected
  remoteStore,   \* data held by the remote resource /api/settings/openai
  localStorage,  \* item of localStorage under openai_settings_config
  ops,           \* the invocations of the service, by slot
  given,         \* the form state handed to the functions of utils
  reported,      \* what validateForm returned for it, Undef before the call
  keyOk,         \* what validateApiKey returned for its key, Undef before
  orgOk,         \* what validateOrganizationId returned for its id, Undef before
  normalized,    \* what formDataToSettings returned for it, Undef before
  restored,      \* what settingsToFormData returned for normalized, Undef before
  phase,         \* the component: "constructed", "mounted" or "unmounted"
  state,         \* this.state of the component
  services,      \* props.services: theme present, event present, absent or throwing
  themeListener, \* the theme service holds this.themeChangeListener
  initTimeout,   \* the 1000 ms timer of componentDidMount: "none", "pending", "fired"
  debounceTimeout, \* the closure of debounceValidation: its variable timeout and the timers pending
  awaiting,      \* by slot, the handler of the component suspended on the invocation
  sent,          \* the settings of the sendMessage calls made, in order
  late,          \* the callbacks that called setState after the unmount
  refused,       \* the button handlers that stopped at the validation of the form
  tested         \* the form data the last connection test was started with

serviceVars == <<apiPresent, remoteStore, localStorage, ops>>
utilsVars == <<given, reported, keyOk, orgOk, normalized, restored>>
uiVars ==
  <<phase, state, services, themeListener, initTimeout, debounceTimeout,
    awaiting, sent, late, refused, tested>>
vars == <<serviceVars, utilsVars, uiVars>>

\* A slot in which no invocation was made.  arg is the argument of the
\* invocation while it is in flight; resp is what its remote call settled with
\* (the response, or the error of a rejection) and body what response.json()
\* settled with; log lists the calls it made to the collaborators; remote and
\* local tell how its remote call and its localStorage access ended; during
\* holds, for a save, the slots whose remote write was in flight when it started.
IdleOp ==
  [kind |-> "none", pc |-> "idle", arg |-> Undef, resp |-> Undef, body |-> Undef,
   settled |-> "none", result |-> Undef, log |-> <<>>,
   remote |-> "none", local |-> "none", during |-> {}]

\* The promise returned by an async method settles with the outcome of its body.
Settle(o, out) ==
  [o EXCEPT !.pc = "done", !.arg = Undef,
            !.settled = IF out.k = "throw" THEN "rejected" ELSE "resolved",
            !.result = IF out.k = "throw" THEN out.e ELSE out.v]

Free(i) == ops[i].pc \in {"idle", "done"}

\* ------------------------------------------------------------ saveSettings

SaveResult(success, message) ==
  [t |-> "object", success |-> success, message |-> message]

\* The outer catch of saveSettings reporting a fixed message.
saveSettingsCatchGeneric(out) ==
  IF out.k = "throw" THEN Return(SaveResult(FALSE, "Failed to save settings"))
  ELSE out

\* The outer catch of saveSettings.
saveSettingsCatch(out) ==
  IF out.k = "throw"
  THEN Return(SaveResult(FALSE, IF out.e.t = "error" THEN out.e.message
                                ELSE "Failed to save settings"))
  ELSE out

\* The localStorage fallback of saveSettings, for the invocation o.
saveSettingsFallback(o, ls, setItemThrows) ==
  LET w == saveToLocalStorage(o.arg, ls, setItemThrows)
      out == IF w.out.k = "throw" THEN w.out
             ELSE Return(SaveResult(TRUE, "Settings saved to local storage"))
      o1 == [o EXCEPT !.log = Append(@, "localStorage.setItem"),
                      !.local = IF w.out.k = "throw" THEN "threw" ELSE "ok"]
  IN [op |-> Settle(o1, saveSettingsCatch(out)), ls |-> w.ls]

\* saveSettings after api.post resolved.
saveSettingsOnPostResolve(o) ==
  Settle([o EXCEPT !.remote = "resolved"],
         saveSettingsCatch(Return(SaveResult(TRUE, "Settings saved successfully"))))

\* saveSettings after api.post rejected.
saveSettingsOnPostReject(o, ls, setItemThrows) ==
  saveSettingsFallback([o EXCEPT !.remote = "rejected", !.resp = Error("API Error")],
                       ls, setItemThrows)

\* saveSettings(settings) up to its first await, as the service sees it.
saveSettingsInvoke(i, settings) ==
  /\ Free(i)
  /\ LET o == [IdleOp EXCEPT !.kind = "save", !.arg = settings,
                             !.settled = "pending",
                             !.during = {j \in Slots : ops[j].pc = "post"}]
     IN IF apiPresent
        THEN /\ ops' = [ops EXCEPT ![i] = [o EXCEPT !.pc = "post",
                                                    !.log = <<"api.post">>,
                                                    !.remote = "pending"]]
             /\ UNCHANGED localStorage
        ELSE \E setItemThrows \in BOOLEAN :
               LET r == saveSettingsFallback(o, localStorage, setItemThrows)
               IN /\ ops' = [ops EXCEPT ![i] = r.op]
                  /\ localStorage' = r.ls
  /\ UNCHANGED <<apiPresent, remoteStore>>

\* saveSettings(settings) called on the service directly.
SaveStart(i, settings) ==
  saveSettingsInvoke(i, settings) /\ UNCHANGED <<utilsVars, uiVars>>

\* A remote write that does not replace what a save invoked later has
\* already written: the writes take effect in the order of invocation.
SavePostResolveKeepsNewer(i) ==
  /\ ops[i].pc = "post"
  /\ ops' = [ops EXCEPT ![i] = saveSettingsOnPostResolve(ops[i])]
  /\ remoteStore' =
       IF \E j \in Slots : i \in ops[j].during /\ ops[j].pc = "done"
       THEN remoteStore
       ELSE JSONparse(JSONstringify(ops[i].arg)).v
  /\ UNCHANGED <<apiPresent, localStorage, utilsVars, uiVars>>

\* The remote write succeeds: the resource holds the posted JSON body.
SavePostResolve(i) ==
  /\ ops[i].pc = "post"
  /\ ops' = [ops EXCEPT ![i] = saveSettingsOnPostResolve(ops[i])]
  /\ remoteStore' = JSONparse(JSONstringify(ops[i].arg)).v
  /\ UNCHANGED <<apiPresent, localStorage, utilsVars, uiVars>>

\* What a remote call completes with when the server answers with a status
\* outside 200..299 and the client hands the response over instead of throwing.
ServerErrorResponse ==
  [t |-> "object", status |-> 500, statusText |-> "Internal Server Error",
   data |-> [t |-> "object", error |-> Str("Internal Server Error")]]

\* The remote write completes with a response that is not a success: nothing
\* was stored remotely; saveSettings does not look at what api.post resolved to.
SavePostResolveError(i) ==
  /\ ops[i].pc = "post"
  /\ ops' = [ops EXCEPT ![i] = [saveSettingsOnPostResolve(ops[i])
                                  EXCEPT !.resp = ServerErrorResponse]]
  /\ UNCHANGED <<apiPresent, remoteStore, localStorage, utilsVars, uiVars>>

\* The remote write throws or rejects.
SavePostReject(i) ==
  /\ ops[i].pc = "post"
  /\ \E setItemThrows \in BOOLEAN :
       LET r == saveSettingsOnPostReject(ops[i], localStorage, setItemThrows)
       IN /\ ops' = [ops EXCEPT ![i] = r.op]
          /\ localStorage' = r.ls
  /\ UNCHANGED <<apiPresent, remoteStore, utilsVars, uiVars>>

\* ------------------------------------------------------------ loadSettings

\* The outer catch of loadSettings.
loadSettingsCatch(out) == IF out.k = "throw" THEN Return(Null) ELSE out

\* The localStorage fallback of loadSettings, for the invocation o.
loadSettingsFallback(o, ls, getItemThrows) ==
  Settle([o EXCEPT !.log = Append(@, "localStorage.getItem"),
                   !.local = IF getItemThrows THEN "threw" ELSE "ok"],
         loadSettingsCatch(Return(loadFromLocalStorage(ls, getItemThrows))))

\* loadSettings after api.get resolved with response.
loadSettingsOnGetResolve(o, response, ls, getItemThrows) ==
  LET o1 == [o EXCEPT !.remote = "resolved", !.resp = response] IN
  IF Truthy(response) /\ Truthy(Prop(response, "data"))
  THEN Settle(o1, loadSettingsCatch(Return(validateSettings(Prop(response, "data")))))
  ELSE loadSettingsFallback(o1, ls, getItemThrows)

\* loadSettings giving up after api.get rejected, without the fallback.
loadSettingsOnGetRejectNull(o, ls, getItemThrows) ==
  Settle([o EXCEPT !.remote = "rejected", !.resp = Error("API Error")], Return(Null))

\* loadSettings after api.get rejected.
loadSettingsOnGetReject(o, ls, getItemThrows) ==
  loadSettingsFallback([o EXCEPT !.remote = "rejected", !.resp = Error("API Error")],
                       ls, getItemThrows)

\* loadSettings() up to its first await, as the service sees it.
loadSettingsInvoke(i) ==
  /\ Free(i)
  /\ LET o == [IdleOp EXCEPT !.kind = "load", !.settled = "pending"]
     IN IF apiPresent
        THEN ops' = [ops EXCEPT ![i] = [o EXCEPT !.pc = "get",
                                                 !.log = <<"api.get">>,
                                                 !.remote = "pending"]]
        ELSE \E getItemThrows \in BOOLEAN :
               ops' = [ops EXCEPT ![i] =
                         loadSettingsFallback(o, localStorage, getItemThrows)]
  /\ UNCHANGED <<apiPresent, remoteStore, localStorage>>

\* loadSettings() called on the service directly.
LoadStart(i) == loadSettingsInvoke(i) /\ UNCHANGED <<utilsVars, uiVars>>

\* The remote read completes: with a response carrying the data of the
\* resource, with no response object at all, or with a response that is not a
\* success.
LoadGetResolve(i) ==
  /\ ops[i].pc = "get"
  /\ \E response \in {Null, [t |-> "object", data |-> remoteStore],
                      ServerErrorResponse},
        getItemThrows \in BOOLEAN :
       ops' = [ops EXCEPT ![i] =
                 loadSettingsOnGetResolve(ops[i], response, localStorage, getItemThrows)]
  /\ UNCHANGED <<apiPresent, remoteStore, localStorage, utilsVars, uiVars>>

\* The remote read throws or rejects.
LoadGetReject(i) ==
  /\ ops[i].pc = "get"
  /\ \E getItemThrows \in BOOLEAN :
       ops' = [ops EXCEPT ![i] =
                 loadSettingsOnGetReject(ops[i], localStorage, getItemThrows)]
  /\ UNCHANGED <<apiPresent, remoteStore, localStorage, utilsVars, uiVars>>

\* ------------------------------------------------------------ testConnection

TestResult(success, message, error, models) ==
  [t |-> "object", success |-> success, message |-> message,
   error |-> error, models |-> models]

\* testConnection without its catch: the exception leaves the method.
testConnectionCatchRethrow(out) == out

\* The catch of testConnection.
testConnectionCatch(out) ==
  IF out.k = "throw"
  THEN Return(TestResult(FALSE, "Connection failed",
                         Str(IF out.e.t = "error" THEN out.e.message
                             ELSE "Unknown error occurred"),
                         Undef))
  ELSE out

\* The request testConnection builds: the organization header only for a
\* truthy organizationId.
testConnectionRequest(apiKey, organizationId) ==
  [t |-> "object", Authorization |-> Str("Bearer " \o apiKey),
   Organization |-> IF Truthy(organizationId) THEN organizationId ELSE Undef]

\* testConnectionOnBody listing the models in the reverse of the server's order.
testConnectionOnBodyReversed(resp, body) ==
  IF resp.ok /\ body.t = "object" /\ Prop(body, "data").t = "array"
  THEN LET a == body.data.a IN
       Return(TestResult(TRUE, "Connection successful", Undef,
                         Arr([n \in 1..Len(a) |-> Prop(a[Len(a) + 1 - n], "id")])))
  ELSE Throw(Error("Cannot read properties of " \o body.t))

\* testConnection after response.json() resolved with body, for the response
\* resp: the error branch and the success branch.
testConnectionOnBody(resp, body) ==
  IF body.t \in {"null", "undefined"}
  THEN Throw(Error("Cannot read properties of " \o body.t))
  ELSE IF ~resp.ok
  THEN LET error == Prop(body, "error")
           message == IF error.t \in {"null", "undefined"} THEN Undef
                      ELSE Prop(error, "message")
       IN Return(TestResult(FALSE, "Connection failed",
                            IF Truthy(message) THEN message
                            ELSE Str("HTTP " \o ToString(resp.status) \o ": "
                                     \o resp.statusText),
                            Undef))
  ELSE LET data == Prop(body, "data") IN
       IF data.t # "array"
       THEN Throw(Error("data.data.map is not a function"))
       ELSE IF \E n \in 1..Len(data.a) : data.a[n].t \in {"null", "undefined"}
       THEN Throw(Error("Cannot read properties of null"))
       ELSE Return(TestResult(TRUE, "Connection successful", Undef,
                              Arr([n \in 1..Len(data.a) |-> Prop(data.a[n], "id")])))

\* testConnection that loses the transport error's text.
testConnectionOnFetchRejectUnknown(o, e) ==
  Settle([o EXCEPT !.remote = "rejected", !.resp = e],
         testConnectionCatch(Throw(Str(e.message))))

\* testConnection that issues the request a second time after a transport failure.
testConnectionOnFetchRejectRetry(o, e) ==
  IF Len(o.log) < 2
  THEN [o EXCEPT !.log = Append(@, "fetch")]
  ELSE Settle([o EXCEPT !.remote = "rejected", !.resp = e], testConnectionCatch(Throw(e)))

\* testConnection after fetch rejected with e.
testConnectionOnFetchReject(o, e) ==
  Settle([o EXCEPT !.remote = "rejected", !.resp = e], testConnectionCatch(Throw(e)))

\* testConnection after fetch resolved with resp: it reads the body.
testConnectionOnFetchResolve(o, resp) ==
  [o EXCEPT !.pc = "json", !.arg = Undef, !.resp = resp, !.remote = "resolved",
            !.log = Append(@, "response.json")]

\* testConnection after response.json() settled with bodyOut.
testConnectionOnJson(o, bodyOut) ==
  Settle([o EXCEPT !.body = bodyOut],
         testConnectionCatch(IF bodyOut.k = "throw" THEN bodyOut
                             ELSE testConnectionOnBody(o.resp, bodyOut.v)))

ModelObj(id) == [t |-> "object", id |-> Str(id)]
ListBody(list) == [t |-> "object", error |-> Undef, data |-> Arr(list)]
ErrorBody(message) ==
  [t |-> "object", error |-> [t |-> "object", message |-> message], data |-> Undef]

\* The model lists of at most MaxModels entries, in every order and with
\* repetitions.
ModelLists ==
  UNION {{[n \in 1..len |-> ModelObj(ids[n])] : ids \in [1..len -> ModelIds]}
           : len \in 0..MaxModels}

\* The responses of the endpoint: status line and, read separately, the body.
Responses ==
  {[t |-> "object", ok |-> TRUE, status |-> 200, statusText |-> "OK"],
   [t |-> "object", ok |-> FALSE, status |-> 401, statusText |-> "Unauthorized"]}

\* The bodies that parse as JSON: model lists, a list with a null entry, error
\* objects with and without a message, an empty object and null.
Bodies ==
  {ListBody(list) : list \in ModelLists}
    \cup {ListBody(<<Null>>), ErrorBody(Str("Invalid API key")), ErrorBody(Str("")),
          [t |-> "object", error |-> Undef, data |-> Undef], Null}

\* What fetch rejects with: it is specified to reject with a TypeError (or an
\* AbortError), both instances of Error.
TransportErrors == {Error("Failed to fetch"), Error("Network error")}

OrganizationIds == {Undef, Str("org-1")}

\* testConnection(apiKey, organizationId) up to its first await: the request
\* is issued.
testConnectionInvoke(i, apiKey, organizationId) ==
  /\ Free(i)
  /\ ops' = [ops EXCEPT ![i] =
               [IdleOp EXCEPT !.kind = "test", !.pc = "fetch",
                              !.arg = testConnectionRequest(apiKey, organizationId),
                              !.settled = "pending", !.log = <<"fetch">>,
                              !.remote = "pending"]]
  /\ UNCHANGED <<apiPresent, remoteStore, localStorage>>

\* testConnection(apiKey, organizationId) called on the service directly.
TestStart(i, apiKey, organizationId) ==
  testConnectionInvoke(i, apiKey, organizationId) /\ UNCHANGED <<utilsVars, uiVars>>

\* The request fails at the transport level.
TestFetchReject(i) ==
  /\ ops[i].pc = "fetch"
  /\ \E e \in TransportErrors :
       ops' = [ops EXCEPT ![i] = testConnectionOnFetchReject(ops[i], e)]
  /\ UNCHANGED <<apiPresent, remoteStore, localStorage, utilsVars, uiVars>>

\* The endpoint answers.
TestFetchResolve(i) ==
  /\ ops[i].pc = "fetch"
  /\ \E resp \in Responses :
       ops' = [ops EXCEPT ![i] = testConnectionOnFetchResolve(ops[i], resp)]
  /\ UNCHANGED <<apiPresent, remoteStore, localStorage, utilsVars, uiVars>>

\* The body of the answer parses as JSON.
TestJsonResolve(i) ==
  /\ ops[i].pc = "json"
  /\ \E body \in Bodies :
       ops' = [ops EXCEPT ![i] = testConnectionOnJson(ops[i], Return(body))]
  /\ UNCHANGED <<apiPresent, remoteStore, localStorage, utilsVars, uiVars>>

\* The body of the answer is not JSON: response.json() rejects.
TestJsonReject(i) ==
  /\ ops[i].pc = "json"
  /\ ops' = [ops EXCEPT ![i] =
               testConnectionOnJson(ops[i], Throw(Error("Unexpected token < in JSON")))]
  /\ UNCHANGED <<apiPresent, remoteStore, localStorage, utilsVars, uiVars>>

\* ------------------------------------------------------------ utils: inputs

\* s repeated n times.
RECURSIVE Repeat(_, _)
Repeat(s, n) == IF n = 0 THEN "" ELSE s \o Repeat(s, n - 1)

\* A key of the documented shape, the key and the organization id the tests
\* call valid, and the organization ids of the documented shape.
GoodKey == "sk-" \o Repeat("aB3", 16)
TestKey == "sk-" \o Repeat("1234567890", 6)
TestOrganizationId == "org-12345678901234567890"
GoodOrganizationId == Repeat("Org4", 5)

ApiKeyInputs ==
  {"", "  ", "invalid-key", GoodKey, " " \o GoodKey \o "\n", TestKey,
   "sk-" \o Repeat("aB3", 15) \o "aB", GoodKey \o "x",
   "pk-" \o Repeat("aB3", 16), "sk-" \o Repeat("aB3", 15) \o "aB_",
   "sk-" \o Repeat("aB3", 8) \o " " \o Repeat("3", 23)}

OrganizationIdInputs ==
  {"", " ", TestOrganizationId, GoodOrganizationId, GoodOrganizationId \o "5",
   " " \o GoodOrganizationId \o " ", Repeat("Org4", 4) \o "abc",
   "invalid-org", "org-123"}

ModelInputs == {"", "gpt-4o", "gpt-4"}

MaxTokensInputs ==
  {"", "  ", "0", "1", "4096", "8192", "8193", "10000", "abc", "12abc",
   "1.5", " 42 ", "-5"}

TemperatureInputs ==
  {"", " ", "0", "0.7", "0.70", "2", "2.1", "3.0", "abc", "-0.1", " 1 ",
   ".5", "1.5x"}

\* The forms handed to the functions: every key and organization id with
\* every model around plain numbers, and every pair of numbers around a good
\* key.
Forms ==
  {FormState(k, o, m, "4096", "0.7") :
     k \in ApiKeyInputs, o \in OrganizationIdInputs, m \in ModelInputs}
  \cup {FormState(GoodKey, "", m, mt, te) :
          m \in ModelInputs, mt \in MaxTokensInputs, te \in TemperatureInputs}

Bool(b) == [t |-> "boolean", b |-> b]

\* No function of utils was called: the given is the one the component starts
\* with.
UtilsIdle ==
  /\ given = FormState("", "", "gpt-4o", "", "")
  /\ reported = Undef
  /\ keyOk = Undef
  /\ orgOk = Undef
  /\ normalized = Undef
  /\ restored = Undef

\* ------------------------------------------------------------ the component

\* getDefaultSettings() of the service; temperature in tenths.
getDefaultSettings == Settings(Str(""), Str(""), Str("gpt-4o"), Num(4096), Num(7))

\* formatErrorMessage(error).
formatErrorMessage(error) ==
  IF error.t = "string" THEN error
  ELSE IF error.t = "error" /\ error.message # "" THEN Str(error.message)
  ELSE Str("An unknown error occurred")

\* this.state as the constructor leaves it.
InitialState ==
  [formData |-> FormState("", "", "gpt-4o", "", ""),
   validationErrors |-> [f \in SettingsFields |-> Undef],
   isLoading |-> FALSE, isSaving |-> FALSE, isTestingConnection |-> FALSE,
   currentTheme |-> "light", testResult |-> Null, saveResult |-> Null,
   isInitializing |-> TRUE]

\* The state after this.setState(patch) on a mounted component.
Merge(st, patch) ==
  [k \in DOMAIN st |-> IF k \in DOMAIN patch THEN patch[k] ELSE st[k]]

\* this.setState(patch) called by the callback who: React applies it to a
\* mounted component and drops it, with a warning, once the component is
\* unmounted.
setState(who, patch) ==
  IF phase = "unmounted"
  THEN state' = state /\ late' = late \cup {who}
  ELSE state' = Merge(state, patch) /\ late' = late

\* The closure of debounceValidation when the component is constructed: its
\* variable timeout is not set and no timer is pending.  A timer is named by
\* the form data its callback will validate.
NoTimers == [timeout |-> Undef, pending |-> {}]

\* debounceValidation without its clearTimeout.
debounceValidationNoClear(d, formData) ==
  [timeout |-> formData, pending |-> d.pending \cup {formData}]

\* debounceValidation(formData) in the closure state d: clearTimeout(timeout),
\* then timeout = setTimeout(callback, 300).
debounceValidation(d, formData) ==
  [timeout |-> formData, pending |-> (d.pending \ {d.timeout}) \cup {formData}]

\* The component is constructed and nothing has run.
UiIdle ==
  /\ phase = "constructed"
  /\ state = InitialState
  /\ services = [theme |-> FALSE, event |-> "absent"]
  /\ themeListener = FALSE
  /\ initTimeout = "none"
  /\ debounceTimeout = NoTimers
  /\ awaiting = [i \in Slots |-> Undef]
  /\ sent = <<>>
  /\ late = {}
  /\ refused = {}
  /\ tested = Undef

Themes == {"light", "dark"}

\* The slot a new invocation of the component takes.
FreeSlot == CHOOSE i \in Slots : Free(i) /\ awaiting[i] = Undef

\* A form on screen, its fields and buttons enabled, during the initial load.
EditableWhileLoading ==
  /\ phase = "mounted"
  /\ ~state.isSaving /\ ~state.isTestingConnection

\* A form whose fields and buttons stay enabled during a save or a test.
EditableWhileBusy ==
  /\ phase = "mounted"
  /\ ~state.isInitializing /\ ~state.isLoading

\* The form is on screen and its fields and buttons are enabled: render shows
\* the loading state while isInitializing or isLoading, and the fields and
\* both buttons are disabled while isSaving or isTestingConnection.
Editable ==
  /\ phase = "mounted"
  /\ ~state.isInitializing /\ ~state.isLoading
  /\ ~state.isSaving /\ ~state.isTestingConnection

\* componentDidMount: initializeThemeService, loadSettings up to its await,
\* and the initialization timer.
ComponentDidMount ==
  /\ phase = "constructed"
  /\ phase' = "mounted"
  /\ IF services.theme
     THEN /\ \E theme \in Themes :
               state' = Merge(state, [currentTheme |-> theme, isLoading |-> TRUE])
          /\ themeListener' = TRUE
     ELSE /\ state' = Merge(state, [isLoading |-> TRUE])
          /\ UNCHANGED themeListener
  /\ loadSettingsInvoke(FreeSlot)
  /\ awaiting' = [awaiting EXCEPT ![FreeSlot] =
                    [handler |-> "loadSettings", settings |-> Undef]]
  /\ initTimeout' = "pending"
  /\ UNCHANGED <<services, debounceTimeout, sent, late, utilsVars, refused, tested>>

\* componentWillUnmount: the theme listener is removed; nothing else is done.
ComponentWillUnmount ==
  /\ phase = "mounted"
  /\ phase' = "unmounted"
  /\ themeListener' = IF themeListener /\ services.theme THEN FALSE ELSE themeListener
  /\ UNCHANGED <<state, services, initTimeout, debounceTimeout, awaiting, sent,
                 late, serviceVars, utilsVars, refused, tested>>

\* The theme service notifies its listeners of a new theme.
ThemeChange(newTheme) ==
  /\ themeListener
  /\ setState("themeChangeListener", [currentTheme |-> newTheme])
  /\ UNCHANGED <<phase, services, themeListener, initTimeout, debounceTimeout,
                 awaiting, sent, serviceVars, utilsVars, refused, tested>>

\* The callback of the 1000 ms timer of componentDidMount runs.
InitTimeoutFire ==
  /\ initTimeout = "pending"
  /\ initTimeout' = "fired"
  /\ setState("initTimeout", [isInitializing |-> FALSE])
  /\ UNCHANGED <<phase, services, themeListener, debounceTimeout, awaiting,
                 sent, serviceVars, utilsVars, refused, tested>>

\* loadSettings of the component after its await.
LoadSettingsResume(i) ==
  /\ awaiting[i] # Undef
  /\ awaiting[i].handler = "loadSettings"
  /\ ops[i].pc = "done"
  /\ awaiting' = [awaiting EXCEPT ![i] = Undef]
  /\ setState("loadSettings",
              IF ops[i].settled = "resolved"
              THEN [formData |->
                      settingsToFormData(IF Truthy(ops[i].result) THEN ops[i].result
                                         ELSE getDefaultSettings),
                    isLoading |-> FALSE]
              ELSE [isLoading |-> FALSE])
  /\ UNCHANGED <<phase, services, themeListener, initTimeout, debounceTimeout,
                 sent, serviceVars, utilsVars, refused, tested>>

\* handleFieldChange leaving the result of the last test on screen.
HandleFieldChangeKeepsResult(fieldName, value) ==
  /\ Editable
  /\ LET newFormData == [state.formData EXCEPT ![fieldName] = value]
     IN /\ setState("handleFieldChange", [formData |-> newFormData])
        /\ debounceTimeout' = debounceValidation(debounceTimeout, newFormData)
  /\ UNCHANGED <<phase, services, themeListener, initTimeout, awaiting, sent,
                 serviceVars, utilsVars, refused, tested>>

\* handleFieldChange(fieldName, value): the new form data, the test result
\* cleared, and the validation timer set anew.
HandleFieldChange(fieldName, value) ==
  /\ Editable
  /\ LET newFormData == [state.formData EXCEPT ![fieldName] = value]
     IN /\ setState("handleFieldChange",
                    [formData |-> newFormData,
                     testResult |-> IF Truthy(state.testResult) THEN Null
                                    ELSE state.testResult])
        /\ debounceTimeout' = debounceValidation(debounceTimeout, newFormData)
  /\ UNCHANGED <<phase, services, themeListener, initTimeout, awaiting, sent,
                 serviceVars, utilsVars, refused, tested>>

\* The callback of the 300 ms timer of debounceValidation runs.
DebounceFire ==
  /\ \E formData \in debounceTimeout.pending :
       /\ debounceTimeout' = [debounceTimeout EXCEPT !.pending = @ \ {formData}]
       /\ setState("debounceValidation",
                   [validationErrors |-> validateForm(formData)])
  /\ UNCHANGED <<phase, services, themeListener, initTimeout, awaiting, sent,
                 serviceVars, utilsVars, refused, tested>>

\* The result the catch of the component's saveSettings stores.
SaveErrorResult(error) ==
  [t |-> "object", success |-> FALSE, message |-> "Failed to save settings",
   error |-> formatErrorMessage(error)]

\* What sendMessage throws when the event service fails.
SendMessageError == Error("sendMessage failed")

\* broadcastSettingsUpdate(settings) for the event service of props.services:
\* the messages handed to sendMessage and how the call ends.
broadcastSettingsUpdate(settings, event) ==
  IF event = "absent" THEN [sends |-> <<>>, out |-> Return(Undef)]
  ELSE IF event = "throws" THEN [sends |-> <<settings>>, out |-> Throw(SendMessageError)]
  ELSE [sends |-> <<settings>>, out |-> Return(Undef)]

\* saveSettings of the component broadcasting whatever the result is.
saveSettingsAfterAwaitAlwaysBroadcast(out, settings, event) ==
  IF out.k = "throw"
  THEN [saveResult |-> SaveErrorResult(out.e), sends |-> <<>>]
  ELSE LET b == broadcastSettingsUpdate(settings, event)
       IN [saveResult |-> IF b.out.k = "throw" THEN SaveErrorResult(b.out.e)
                          ELSE out.v,
           sends |-> b.sends]

\* saveSettings of the component after its await settled with out: the
\* saveResult it leaves in the state and the messages it sends.
saveSettingsAfterAwait(out, settings, event) ==
  IF out.k = "throw"
  THEN [saveResult |-> SaveErrorResult(out.e), sends |-> <<>>]
  ELSE IF out.v.success
  THEN LET b == broadcastSettingsUpdate(settings, event)
       IN [saveResult |-> IF b.out.k = "throw" THEN SaveErrorResult(b.out.e)
                          ELSE out.v,
           sends |-> b.sends]
  ELSE [saveResult |-> out.v, sends |-> <<>>]

MaxSent == 2

\* saveSettings of the component calling the service without validating the
\* form.
SaveSettingsClickUnvalidated ==
  /\ Editable
  /\ ~hasValidationErrors(state.validationErrors)
  /\ Len(sent) < MaxSent
  /\ LET settings == formDataToSettings(state.formData)
     IN /\ setState("saveSettings", [isSaving |-> TRUE, saveResult |-> Null])
        /\ saveSettingsInvoke(FreeSlot, settings)
        /\ awaiting' = [awaiting EXCEPT ![FreeSlot] =
                          [handler |-> "saveSettings", settings |-> settings]]
  /\ UNCHANGED <<phase, services, themeListener, initTimeout, debounceTimeout,
                 sent, utilsVars, refused, tested>>

\* saveSettings of the component, started with its button, up to its await:
\* the form is validated; with errors they are stored and nothing else
\* happens, without errors the service is called with the settings of the form.
SaveSettingsClick ==
  /\ Editable
  /\ ~hasValidationErrors(state.validationErrors)
  /\ Len(sent) < MaxSent
  /\ LET errors == validateForm(state.formData)
         settings == formDataToSettings(state.formData)
     IN IF hasValidationErrors(errors)
        THEN /\ setState("saveSettings", [validationErrors |-> errors])
             /\ refused' = refused \cup {"saveSettings"}
             /\ UNCHANGED <<awaiting, serviceVars>>
        ELSE /\ setState("saveSettings", [isSaving |-> TRUE, saveResult |-> Null])
             /\ saveSettingsInvoke(FreeSlot, settings)
             /\ awaiting' = [awaiting EXCEPT ![FreeSlot] =
                               [handler |-> "saveSettings", settings |-> settings]]
             /\ UNCHANGED refused
  /\ UNCHANGED <<phase, services, themeListener, initTimeout, debounceTimeout,
                 sent, utilsVars, tested>>

\* saveSettings of the component clearing isSaving at the end of its try
\* instead of in a finally: a failed save leaves it set.
SaveSettingsResumeNoFinally(i) ==
  /\ awaiting[i] # Undef
  /\ awaiting[i].handler = "saveSettings"
  /\ ops[i].pc = "done"
  /\ awaiting' = [awaiting EXCEPT ![i] = Undef]
  /\ LET out == IF ops[i].settled = "resolved" THEN Return(ops[i].result)
                ELSE Throw(ops[i].result)
         r == saveSettingsAfterAwait(out, awaiting[i].settings, services.event)
     IN /\ setState("saveSettings",
                    IF r.saveResult.success
                    THEN [saveResult |-> r.saveResult, isSaving |-> FALSE]
                    ELSE [saveResult |-> r.saveResult])
        /\ sent' = sent \o r.sends
  /\ UNCHANGED <<phase, services, themeListener, initTimeout, debounceTimeout,
                 serviceVars, utilsVars, refused, tested>>

\* saveSettings of the component after its await.
SaveSettingsResume(i) ==
  /\ awaiting[i] # Undef
  /\ awaiting[i].handler = "saveSettings"
  /\ ops[i].pc = "done"
  /\ awaiting' = [awaiting EXCEPT ![i] = Undef]
  /\ LET out == IF ops[i].settled = "resolved" THEN Return(ops[i].result)
                ELSE Throw(ops[i].result)
         r == saveSettingsAfterAwait(out, awaiting[i].settings, services.event)
     IN /\ setState("saveSettings",
                    [saveResult |-> r.saveResult, isSaving |-> FALSE])
        /\ sent' = sent \o r.sends
  /\ UNCHANGED <<phase, services, themeListener, initTimeout, debounceTimeout,
                 serviceVars, utilsVars, refused, tested>>

\* The result the catch of the component's testConnection stores.
TestErrorResult(error) ==
  [t |-> "object", success |-> FALSE, message |-> "Connection test failed",
   error |-> formatErrorMessage(error)]

\* testConnection of the component, started with its button, up to its await:
\* the form is validated; with errors they are stored and nothing else
\* happens, without errors the service is called with the key and the
\* organization of the form.  The button is enabled for a form with a key and
\* no displayed error.
TestConnectionClick ==
  /\ Editable
  /\ ~hasValidationErrors(state.validationErrors)
  /\ Len(trim(state.formData.apiKey)) > 0
  /\ LET errors == validateForm(state.formData)
         settings == formDataToSettings(state.formData)
     IN IF hasValidationErrors(errors)
        THEN /\ setState("testConnection", [validationErrors |-> errors])
             /\ refused' = refused \cup {"testConnection"}
             /\ UNCHANGED <<awaiting, serviceVars, tested>>
        ELSE /\ setState("testConnection",
                         [isTestingConnection |-> TRUE, testResult |-> Null])
             /\ testConnectionInvoke(FreeSlot, settings.apiKey.s, settings.organizationId)
             /\ awaiting' = [awaiting EXCEPT ![FreeSlot] =
                               [handler |-> "testConnection", settings |-> settings]]
             /\ tested' = state.formData
             /\ UNCHANGED refused
  /\ UNCHANGED <<phase, services, themeListener, initTimeout, debounceTimeout,
                 sent, utilsVars>>

\* testConnection of the component after its await.
TestConnectionResume(i) ==
  /\ awaiting[i] # Undef
  /\ awaiting[i].handler = "testConnection"
  /\ ops[i].pc = "done"
  /\ awaiting' = [awaiting EXCEPT ![i] = Undef]
  /\ setState("testConnection",
              [testResult |-> IF ops[i].settled = "resolved" THEN ops[i].result
                              ELSE TestErrorResult(ops[i].result),
               isTestingConnection |-> FALSE])
  /\ UNCHANGED <<phase, services, themeListener, initTimeout, debounceTimeout,
                 sent, serviceVars, utilsVars, refused, tested>>

\* The values typed into the fields.
FieldInputs ==
  {<<"apiKey", GoodKey>>, <<"apiKey", "invalid-key">>, <<"temperature", "0">>}

\* The settings held remotely and locally when the component is constructed.
StoredRemotely == {Undef, P_full}
StoredLocally == {Null, JSONText(P_mistyped)}

InitUi ==
  /\ apiPresent \in BOOLEAN
  /\ remoteStore \in StoredRemotely
  /\ localStorage \in StoredLocally
  /\ ops = [i \in Slots |-> IdleOp]
  /\ UtilsIdle
  /\ phase = "constructed"
  /\ state = InitialState
  /\ services \in [theme : BOOLEAN, event : {"present", "absent", "throws"}]
  /\ themeListener = FALSE
  /\ initTimeout = "none"
  /\ debounceTimeout = NoTimers
  /\ awaiting = [i \in Slots |-> Undef]
  /\ sent = <<>>
  /\ late = {}
  /\ refused = {}
  /\ tested = Undef

\* The bodies answering the tests of the component: a model list and an error
\* object.
TestBodies ==
  {ListBody(<<ModelObj("gpt-4o")>>), ErrorBody(Str("Invalid API key"))}

\* The body of the answer to a test of the component parses as JSON.
TestBodyResolve(i) ==
  /\ ops[i].pc = "json"
  /\ \E body \in TestBodies :
       ops' = [ops EXCEPT ![i] = testConnectionOnJson(ops[i], Return(body))]
  /\ UNCHANGED <<apiPresent, remoteStore, localStorage, utilsVars, uiVars>>

\* The steps of the service on the invocations of the component.
ServiceStep(i) ==
  \/ SavePostResolve(i)
  \/ SavePostResolveError(i)
  \/ SavePostReject(i)
  \/ LoadGetResolve(i)
  \/ LoadGetReject(i)

NextUi ==
  \/ ComponentDidMount
  \/ ComponentWillUnmount
  \/ \E newTheme \in Themes : ThemeChange(newTheme)
  \/ InitTimeoutFire
  \/ \E i \in Slots : LoadSettingsResume(i)
  \/ \E c \in FieldInputs : HandleFieldChange(c[1], c[2])
  \/ DebounceFire
  \/ SaveSettingsClick
  \/ \E i \in Slots : SaveSettingsResume(i)
  \/ \E i \in Slots : ServiceStep(i)

SpecUi == InitUi /\ [][NextUi]_vars

\* ------------------------------------------------------------ the form in use

\* The component with the api service and without the theme and event
\* services; the remote resource holds settings or nothing.
InitForm ==
  /\ apiPresent = TRUE
  /\ remoteStore \in StoredRemotely
  /\ localStorage = Null
  /\ ops = [i \in Slots |-> IdleOp]
  /\ UtilsIdle
  /\ UiIdle

\* The steps of the service on the tests of the component.
TestStep(i) ==
  \/ TestFetchReject(i)
  \/ TestFetchResolve(i)
  \/ TestBodyResolve(i)
  \/ TestJsonReject(i)

NextForm ==
  \/ ComponentDidMount
  \/ ComponentWillUnmount
  \/ InitTimeoutFire
  \/ \E i \in Slots : LoadSettingsResume(i)
  \/ \E c \in FieldInputs : HandleFieldChange(c[1], c[2])
  \/ DebounceFire
  \/ SaveSettingsClick
  \/ \E i \in Slots : SaveSettingsResume(i)
  \/ TestConnectionClick
  \/ \E i \in Slots : TestConnectionResume(i)
  \/ \E i \in Slots : ServiceStep(i)
  \/ \E i \in Slots : TestStep(i)

SpecForm == InitForm /\ [][NextForm]_vars

\* A call of a collaborator settles.
SettleStep == \E i \in Slots : ServiceStep(i) \/ TestStep(i)

\* A handler of the component resumes after its await.
ResumeStep ==
  \E i \in Slots :
    LoadSettingsResume(i) \/ SaveSettingsResume(i) \/ TestConnectionResume(i)

\* A pending timer of debounceValidation leaves the set of pending timers.
\* DebounceFire is the only step of the component that does this, and it can
\* be taken whenever a timer is pending.
DebounceTimerElapses ==
  \E formData \in debounceTimeout.pending :
    debounceTimeout' = [debounceTimeout EXCEPT !.pending = @ \ {formData}]

\* The component with calls that settle, continuations that run and timers
\* that fire.
SpecFormLive ==
  /\ SpecForm
  /\ WF_vars(SettleStep)
  /\ WF_vars(ResumeStep)
  /\ WF_vars(InitTimeoutFire)
  /\ WF_debounceTimeout(DebounceTimerElapses)

\* ------------------------------------------------------------ specification

Init ==
  /\ apiPresent \in BOOLEAN
  /\ remoteStore \in RemoteContents
  /\ localStorage \in LocalContents
  /\ ops = [i \in Slots |-> IdleOp]
  /\ UtilsIdle
  /\ UiIdle

Next ==
  \E i \in Slots :
    \/ \E s \in SaveInputs : SaveStart(i, s)
    \/ SavePostResolve(i)
    \/ SavePostResolveError(i)
    \/ SavePostReject(i)
    \/ LoadStart(i)
    \/ LoadGetResolve(i)
    \/ LoadGetReject(i)
    \/ \E org \in OrganizationIds : TestStart(i, "sk-A", org)
    \/ TestFetchReject(i)
    \/ TestFetchResolve(i)
    \/ TestJsonResolve(i)
    \/ TestJsonReject(i)

Spec == Init /\ [][Next]_vars

\* ------------------------------------------------------------ utils: calls

CallValidateForm ==
  /\ reported = Undef
  /\ reported' = validateForm(given)
  /\ UNCHANGED <<serviceVars, given, keyOk, orgOk, normalized, restored, uiVars>>

CallValidateApiKey ==
  /\ keyOk = Undef
  /\ keyOk' = Bool(validateApiKey(given.apiKey))
  /\ UNCHANGED <<serviceVars, given, reported, orgOk, normalized, restored, uiVars>>

CallValidateOrganizationId ==
  /\ orgOk = Undef
  /\ orgOk' = Bool(validateOrganizationId(given.organizationId))
  /\ UNCHANGED <<serviceVars, given, reported, keyOk, normalized, restored, uiVars>>

CallFormDataToSettings ==
  /\ normalized = Undef
  /\ normalized' = formDataToSettings(given)
  /\ UNCHANGED <<serviceVars, given, reported, keyOk, orgOk, restored, uiVars>>

CallSettingsToFormData ==
  /\ normalized # Undef
  /\ restored = Undef
  /\ restored' = settingsToFormData(normalized)
  /\ UNCHANGED <<serviceVars, given, reported, keyOk, orgOk, normalized, uiVars>>

\* The service is not used while the functions of utils are called.
ServiceIdle ==
  /\ apiPresent = FALSE
  /\ remoteStore = Undef
  /\ localStorage = Null
  /\ ops = [i \in Slots |-> IdleOp]

InitUtils ==
  /\ ServiceIdle
  /\ UiIdle
  /\ given \in Forms
  /\ reported = Undef
  /\ keyOk = Undef
  /\ orgOk = Undef
  /\ normalized = Undef
  /\ restored = Undef

NextUtils ==
  \/ CallValidateForm
  \/ CallValidateApiKey
  \/ CallValidateOrganizationId
  \/ CallFormDataToSettings
  \/ CallSettingsToFormData

SpecUtils == InitUtils /\ [][NextUtils]_vars

\* ------------------------------------------------------------ persistence of a form

\* The forms validateForm accepts.
ValidForms == {f \in Forms : ~hasValidationErrors(validateForm(f))}

\* saveSettings of the settings made from the form, with no api service: the
\* write goes to localStorage.
PersistSave ==
  /\ normalized # Undef
  /\ ops["a"].pc = "idle"
  /\ saveSettingsInvoke("a", normalized)
  /\ UNCHANGED <<utilsVars, uiVars>>

\* loadSettings after that save, with no api service: the read comes from
\* localStorage.
PersistLoad ==
  /\ ops["a"].pc = "done"
  /\ ops["b"].pc = "idle"
  /\ loadSettingsInvoke("b")
  /\ UNCHANGED <<utilsVars, uiVars>>

InitPersist ==
  /\ ServiceIdle
  /\ UiIdle
  /\ given \in ValidForms
  /\ reported = Undef
  /\ keyOk = Undef
  /\ orgOk = Undef
  /\ normalized = Undef
  /\ restored = Undef

NextPersist ==
  \/ CallFormDataToSettings
  \/ PersistSave
  \/ PersistLoad

SpecPersist == InitPersist /\ [][NextPersist]_vars

\* ------------------------------------------------------------ a save, then a load

\* Accepted forms whose settings validateSettings gives back whole.
ReadWriteForms ==
  {FormState(GoodKey, "", "gpt-4o", "4096", "0.7"),
   FormState(GoodKey, GoodOrganizationId, "gpt-4", "8192", "2")}

\* The backends hold what older saves left there, the api service is there
\* or not, and one of the forms is about to be saved.
InitReadWrite ==
  /\ apiPresent \in BOOLEAN
  /\ remoteStore \in StoredRemotely
  /\ localStorage \in StoredLocally
  /\ ops = [i \in Slots |-> IdleOp]
  /\ UiIdle
  /\ given \in ReadWriteForms
  /\ reported = Undef
  /\ keyOk = Undef
  /\ orgOk = Undef
  /\ normalized = Undef
  /\ restored = Undef

\* The form is normalized and saved; once the save has settled the settings
\* are loaded; the remote call of each succeeds or fails.
NextReadWrite ==
  \/ CallFormDataToSettings
  \/ PersistSave
  \/ SavePostResolve("a")
  \/ SavePostReject("a")
  \/ PersistLoad
  \/ LoadGetResolve("b")
  \/ LoadGetReject("b")

SpecReadWrite == InitReadWrite /\ [][NextReadWrite]_vars

\* ------------------------------------------------------------ properties

\* Number of calls named call in a log.
Count(log, call) == Cardinality({n \in 1..Len(log) : log[n] = call})

Done(i, kind) == ops[i].kind = kind /\ ops[i].pc = "done"

\* C1: saveSettings calls the remote write first; when it succeeds the result
\* is {true, "Settings saved successfully"} and localStorage is not touched;
\* when it fails (and the store takes the write) localStorage receives the
\* serialized settings and the result is {true, "Settings saved to local storage"}.
C1_SaveRemoteFirst ==
  [][\A i \in Slots :
       (ops[i].pc = "post" /\ ops'[i].pc = "done") =>
         /\ ops'[i].remote = "resolved" =>
              /\ ops'[i].settled = "resolved"
              /\ ops'[i].result = SaveResult(TRUE, "Settings saved successfully")
              /\ ops'[i].log = <<"api.post">>
              /\ localStorage' = localStorage
         /\ (ops'[i].remote = "rejected" /\ ops'[i].local = "ok") =>
              /\ ops'[i].settled = "resolved"
              /\ ops'[i].result = SaveResult(TRUE, "Settings saved to local storage")
              /\ ops'[i].log = <<"api.post", "localStorage.setItem">>
              /\ localStorage' = JSONstringify(ops[i].arg)]_vars

C1_Witness ==
  \E i, j \in Slots :
    /\ Done(i, "save") /\ ops[i].remote = "resolved"
    /\ Done(j, "save") /\ ops[j].remote = "rejected" /\ ops[j].local = "ok"
    /\ localStorage = JSONstringify(P_zeroTemp)

\* C2: when the remote write fails and localStorage.setItem throws as well,
\* saveSettings resolves to success=false with the store's error message.
C2_SaveBothFail ==
  \A i \in Slots :
    (Done(i, "save") /\ ops[i].remote = "rejected" /\ ops[i].local = "threw") =>
      /\ ops[i].settled = "resolved"
      /\ ops[i].result = SaveResult(FALSE, "Storage error")

C2_Witness ==
  \E i \in Slots :
    Done(i, "save") /\ ops[i].remote = "rejected" /\ ops[i].local = "threw"

\* The data of a remote response is there and fails re-validation.
InvalidPayload(resp) ==
  Truthy(Prop(resp, "data")) /\ validateSettings(Prop(resp, "data")) = Null

\* What a read of the localStorage item ls is to give: null for no item, an
\* empty item or text that is not JSON, else the re-validated content.
Held(ls) ==
  IF ls = Null \/ ls = Str("") \/ JSONparse(ls).k = "throw" THEN Null
  ELSE validateSettings(JSONparse(ls).v)

\* C3: when the remote read returns a payload that fails re-validation,
\* loadSettings does not return the payload and falls through to localStorage:
\* it resolves to the valid settings localStorage holds, and to null only when
\* localStorage holds none (or cannot be read).
C3_InvalidRemoteFallsThrough ==
  [][\A i \in Slots :
       (/\ ops[i].pc = "get" /\ ops'[i].pc = "done"
        /\ ops'[i].remote = "resolved" /\ InvalidPayload(ops'[i].resp)) =>
         \/ ops'[i].result = Held(localStorage)
         \/ ops'[i].local = "threw" /\ ops'[i].result = Null]_vars

\* C4: when the remote read throws or rejects, loadSettings resolves to what
\* localStorage holds after re-validation, and to null when there is no item,
\* the item does not parse or the store cannot be read.
C4_RemoteRejectUsesLocal ==
  [][\A i \in Slots :
       (ops[i].pc = "get" /\ ops'[i].pc = "done" /\ ops'[i].remote = "rejected") =>
         /\ ops'[i].settled = "resolved"
         /\ ops'[i].log = <<"api.get", "localStorage.getItem">>
         /\ ops'[i].result = IF ops'[i].local = "threw" THEN Null
                             ELSE Held(localStorage)]_vars

C4_Witness ==
  \E i, j \in Slots :
    /\ Done(i, "load") /\ ops[i].remote = "rejected" /\ ops[i].local = "ok"
    /\ ops[i].result = Null
    /\ Done(j, "load") /\ ops[j].remote = "rejected" /\ ops[j].local = "ok"
    /\ ops[j].result # Null

\* C5: every value other than null that loadSettings resolves to has a
\* non-empty string apiKey and a model among the five allowed identifiers.
C5_LoadedSettingsValid ==
  \A i \in Slots :
    (Done(i, "load") /\ ops[i].settled = "resolved" /\ ops[i].result # Null) =>
      /\ ops[i].result.t = "object"
      /\ ops[i].result.apiKey.t = "string" /\ ops[i].result.apiKey.s # ""
      /\ ops[i].result.model.t = "string"
      /\ ops[i].result.model.s \in
           {"gpt-4o", "gpt-4", "gpt-3.5-turbo", "gpt-4-turbo", "gpt-4o-mini"}

C5_Witness ==
  \E i, j \in Slots :
    /\ Done(i, "load") /\ ops[i].result # Null /\ ops[i].local = "none"
    /\ Done(j, "load") /\ ops[j].result # Null /\ ops[j].local = "ok"

\* C6: whatever the collaborators do, saveSettings, loadSettings and
\* testConnection resolve to a result value and never reject.
C6_NeverRejects ==
  \A i \in Slots :
    /\ ops[i].settled # "rejected"
    /\ ops[i].pc = "done" =>
         /\ ops[i].settled = "resolved"
         /\ ops[i].kind = "save" =>
              DOMAIN ops[i].result = {"t", "success", "message"}
         /\ ops[i].kind = "test" =>
              DOMAIN ops[i].result = {"t", "success", "message", "error", "models"}
         /\ ops[i].kind = "load" =>
              \/ ops[i].result = Null
              \/ DOMAIN ops[i].result = SettingsFields \cup {"t"}

C6_Witness ==
  \E i, j \in Slots :
    /\ Done(i, "save") /\ ops[i].local = "threw"
    /\ Done(j, "test") /\ ops[j].body # Undef /\ ops[j].body.k = "throw"

\* The body is an object whose data is a list of model objects.
HasModelList(body) ==
  /\ body.t = "object" /\ Prop(body, "data").t = "array"
  /\ \A n \in 1..Len(body.data.a) : body.data.a[n].t = "object"

\* C7: on a success status with a body that carries a model list,
\* testConnection resolves to success, "Connection successful" and the ids of
\* the list in the server's order, entry for entry.
C7_ModelsInServerOrder ==
  \A i \in Slots :
    (/\ Done(i, "test") /\ ops[i].remote = "resolved" /\ ops[i].resp.ok
     /\ ops[i].body.k = "return" /\ HasModelList(ops[i].body.v)) =>
      LET list == ops[i].body.v.data.a
          r == ops[i].result
      IN /\ r.success = TRUE /\ r.message = "Connection successful"
         /\ r.error = Undef
         /\ r.models.t = "array" /\ Len(r.models.a) = Len(list)
         /\ \A n \in 1..Len(list) : r.models.a[n] = list[n].id

C7_Witness ==
  \E i, j \in Slots :
    /\ Done(i, "test") /\ ops[i].result.models = Arr(<<Str("gpt-4o"), Str("gpt-4")>>)
    /\ Done(j, "test") /\ ops[j].result.models = Arr(<<Str("gpt-4"), Str("gpt-4")>>)

\* The message of a structured error body, Undef when there is none.
StructuredMessage(bodyOut) ==
  IF bodyOut.k = "return" /\ bodyOut.v.t = "object"
     /\ Prop(bodyOut.v, "error").t = "object"
     /\ Truthy(Prop(bodyOut.v.error, "message"))
  THEN bodyOut.v.error.message
  ELSE Undef

\* C8: on a non-success status testConnection resolves to success=false and
\* "Connection failed", with as error the structured message parsed from the
\* body, and "HTTP <status>: <statusText>" when the body does not parse.
C8_HttpErrorDetail ==
  \A i \in Slots :
    (Done(i, "test") /\ ops[i].remote = "resolved" /\ ~ops[i].resp.ok) =>
      /\ ops[i].result.success = FALSE
      /\ ops[i].result.message = "Connection failed"
      /\ StructuredMessage(ops[i].body) # Undef =>
           ops[i].result.error = StructuredMessage(ops[i].body)
      /\ ops[i].body.k = "throw" =>
           ops[i].result.error =
             Str("HTTP " \o ToString(ops[i].resp.status) \o ": "
                 \o ops[i].resp.statusText)

\* C9: when fetch rejects, testConnection resolves to success=false,
\* "Connection failed", the transport error's text as error and no models.
C9_TransportFailure ==
  \A i \in Slots :
    (Done(i, "test") /\ ops[i].remote = "rejected") =>
      /\ ops[i].settled = "resolved"
      /\ ops[i].result =
           TestResult(FALSE, "Connection failed", Str(ops[i].resp.message), Undef)

C9_Witness ==
  \E i \in Slots :
    /\ Done(i, "test") /\ ops[i].remote = "rejected"
    /\ ops[i].result.error = Str("Network error")

KeyShape(s) ==
  /\ Len(s) >= 3
  /\ SubSeq(s, 1, 3) = "sk-"
  /\ Len(From(s, 4)) = 48
  /\ \A i \in 4..Len(s) : Ch(s, i) \in Digits \cup Letters

TestForm == FormState(TestKey, "", "gpt-4o", "4096", "0.7")

\* C12: the key the tests call valid, "sk-" followed by 60 digits, is accepted
\* by validateApiKey, and validateForm returns no error for the tests' form.
C12_TestKeyAccepted ==
  given.apiKey = TestKey =>
    /\ keyOk # Undef => keyOk = Bool(TRUE)
    /\ (reported # Undef /\ given = TestForm) => ~hasValidationErrors(reported)

\* C13: the organization id the tests call valid, "org-" followed by 20
\* alphanumerics, is accepted by validateOrganizationId and by validateForm;
\* ids that are too short or empty are rejected by validateOrganizationId.
C13_TestOrganizationIdAccepted ==
  /\ given.organizationId = TestOrganizationId =>
       /\ orgOk # Undef => orgOk = Bool(TRUE)
       /\ reported # Undef => reported.organizationId = Undef
  /\ (given.organizationId \in {"", "org-123"} /\ orgOk # Undef) =>
       orgOk = Bool(FALSE)

\* The text, white space around it apart, is an integer numeral.
IntegerText(s) ==
  LET u == Unsigned(trim(s))
  IN Len(u) > 0 /\ \A i \in 1..Len(u) : Ch(u, i) \in Digits

\* C14: validateForm reports "Max tokens must be between 1 and 8192" exactly
\* when the maxTokens string is not blank and is either not an integer or an
\* integer outside 1..8192; no other maxTokens error is reported.
C14_MaxTokensError ==
  reported # Undef =>
    /\ reported.maxTokens \in {Undef, Str("Max tokens must be between 1 and 8192")}
    /\ reported.maxTokens # Undef <=>
         /\ trim(given.maxTokens) # ""
         /\ \/ ~IntegerText(given.maxTokens)
            \/ Sign(trim(given.maxTokens)) * DecValue(Unsigned(trim(given.maxTokens)))
                 \notin 1..8192

OptionalFields == {"organizationId", "maxTokens", "temperature"}

\* C15, as stated: the Settings of formDataToSettings hold apiKey and model,
\* and an optional field is left out whenever its source string is blank or
\* is one validateForm rejects; none is stored as null or as an empty string.
C15_OmittedWhenInvalid ==
  normalized # Undef =>
    /\ normalized.apiKey.t = "string" /\ normalized.model.t = "string"
    /\ \A f \in OptionalFields :
         /\ (trim(given[f]) = "" \/ validateForm(given)[f] # Undef) =>
              normalized[f] = Undef
         /\ normalized[f] \notin {Null, Str(""), NaN}

\* The text starts, after white space and a sign, with a number: digits, or
\* for a decimal also a point and a digit.
StartsNumber(s, decimal) ==
  LET u == Unsigned(trimStart(s))
  IN /\ Len(u) > 0
     /\ \/ Ch(u, 1) \in Digits
        \/ decimal /\ Len(u) > 1 /\ Ch(u, 1) = "." /\ Ch(u, 2) \in Digits

\* C15, amended: the Settings of formDataToSettings hold apiKey (trimmed) and
\* model; organizationId is left out exactly when its source is blank and is
\* the trimmed source otherwise; maxTokens and temperature are left out
\* exactly when the source is blank or does not start with a number and are
\* numbers otherwise, whatever validateForm says of them; none is stored as
\* null, as an empty string or as NaN.
C15_OmittedWhenBlankOrUnparsed ==
  normalized # Undef =>
    /\ normalized.apiKey = Str(trim(given.apiKey))
    /\ normalized.model = Str(given.model)
    /\ normalized.organizationId =
         IF trim(given.organizationId) = "" THEN Undef
         ELSE Str(trim(given.organizationId))
    /\ normalized.maxTokens = Undef <=> ~StartsNumber(given.maxTokens, FALSE)
    /\ normalized.temperature = Undef <=> ~StartsNumber(given.temperature, TRUE)
    /\ \A f \in {"maxTokens", "temperature"} :
         normalized[f] # Undef => normalized[f].t = "number" /\ ~normalized[f].nan
    /\ \A f \in OptionalFields : normalized[f] \notin {Null, Str(""), NaN}

\* A form was normalized whose organization id or maxTokens validateForm
\* rejects, and the value was stored.
C15_Witness ==
  /\ normalized # Undef
  /\ \E f \in OptionalFields :
       validateForm(given)[f] # Undef /\ normalized[f] # Undef

RemoteFailed(o) ==
  \/ o.remote = "rejected"
  \/ o.remote = "resolved" /\ o.resp = ServerErrorResponse

\* C19: whichever way the remote call fails (throwing, rejecting, completing
\* with a response outside 200..299), saveSettings goes on to write to
\* localStorage and loadSettings goes on to read from localStorage.
C19_RemoteFailureFallsBack ==
  \A i \in Slots :
    (ops[i].pc = "done" /\ RemoteFailed(ops[i])) =>
      /\ ops[i].kind = "save" => ops[i].log = <<"api.post", "localStorage.setItem">>
      /\ ops[i].kind = "load" => ops[i].log = <<"api.get", "localStorage.getItem">>

\* ------------------------------------------------------------ properties of the component

\* The step resumes the component's saveSettings on the invocation of slot i.
SaveResumes(i) ==
  /\ awaiting[i] # Undef
  /\ awaiting[i].handler = "saveSettings"
  /\ awaiting'[i] = Undef

\* The service reported the save of slot i successful.
ReportedSuccess(i) == ops[i].settled = "resolved" /\ ops[i].result.success

\* C17: sendMessage is called only in the step that resumes a save the
\* service reported successful, once in that step (when an event service is
\* there), with the settings that were handed to the service and that the
\* backend which took the write holds; no other step, a failed save and a save
\* blocked by validation included, sends anything.
C17_NotifyOncePerSuccessfulSave ==
  [][IF \E i \in Slots : SaveResumes(i) /\ ReportedSuccess(i)
     THEN \E i \in Slots :
            /\ SaveResumes(i) /\ ReportedSuccess(i)
            /\ sent' = IF services.event = "absent" THEN sent
                       ELSE Append(sent, awaiting[i].settings)
            /\ ops[i].local = "ok" =>
                 localStorage = JSONstringify(awaiting[i].settings)
            /\ (ops[i].remote = "resolved" /\ ops[i].resp # ServerErrorResponse) =>
                 remoteStore = JSONparse(JSONstringify(awaiting[i].settings)).v
     ELSE sent' = sent]_vars

\* A save was reported successful and one notification with its settings was
\* sent, to an event service that took it.
C17_Witness ==
  /\ services.event = "present"
  /\ Len(sent) = 1
  /\ sent[1] = formDataToSettings(state.formData)
  /\ state.saveResult # Null
  /\ state.saveResult.success

\* C18: after a save the service reported successful, saveResult is the
\* result the service returned, whether the event service is present, absent
\* or throws from sendMessage.
C18_SaveResultKept ==
  [][\A i \in Slots :
       (SaveResumes(i) /\ ReportedSuccess(i) /\ phase = "mounted") =>
         state'.saveResult = ops[i].result]_vars

\* C20: once the component is unmounted the theme service no longer holds its
\* listener, neither of its timers is pending, and no listener or timer
\* callback has called setState since the unmount.
C20_UnmountCleansUp ==
  phase = "unmounted" =>
    /\ ~themeListener
    /\ initTimeout # "pending"
    /\ debounceTimeout.pending = {}
    /\ late \cap {"themeChangeListener", "initTimeout", "debounceValidation"} = {}

\* ------------------------------------------------------------ properties of utils, continued

\* C30: for a form on which validateForm reports no error, the Settings of
\* formDataToSettings fit the data model: apiKey is "sk-" and 48
\* alphanumerics, model is not empty, organizationId when present is 20 or
\* more alphanumerics, maxTokens when present is an integer in 1..8192 and
\* temperature when present lies in 0..2.
C30_ValidFormGivesValidSettings ==
  (normalized # Undef /\ ~hasValidationErrors(validateForm(given))) =>
    /\ normalized.apiKey.t = "string" /\ KeyShape(normalized.apiKey.s)
    /\ normalized.model.t = "string" /\ normalized.model.s # ""
    /\ normalized.organizationId # Undef =>
         /\ normalized.organizationId.t = "string"
         /\ Len(normalized.organizationId.s) >= 20
         /\ \A i \in 1..Len(normalized.organizationId.s) :
              Ch(normalized.organizationId.s, i) \in Digits \cup Letters
    /\ normalized.maxTokens # Undef =>
         /\ normalized.maxTokens.t = "number" /\ ~normalized.maxTokens.nan
         /\ normalized.maxTokens.n \in 1..8192
    /\ normalized.temperature # Undef =>
         /\ normalized.temperature.t = "number" /\ ~normalized.temperature.nan
         /\ normalized.temperature.n \in 0..20

\* Accepted forms were normalized at the bounds: maxTokens 8192 with
\* temperature 0, and a key typed with white space around it.
C30_Witness ==
  /\ normalized # Undef
  /\ ~hasValidationErrors(validateForm(given))
  /\ \/ normalized.maxTokens = Num(8192) /\ normalized.temperature = Num(0)
     \/ given.apiKey # trim(given.apiKey)

\* C26: the Settings made from an accepted form, saved through the
\* localStorage fallback and loaded from localStorage again, come back equal,
\* every optional field they carried included (maxTokens at its bounds and
\* temperature 0 too).
C26_PersistenceRoundTrip ==
  (/\ Done("a", "save") /\ ops["a"].local = "ok"
   /\ Done("b", "load") /\ ops["b"].local = "ok") =>
    ops["b"].result = normalized

\* ------------------------------------------------------------ properties of the service, overlapping calls

\* C23: saves that overlap are neither queued nor merged.  A save started
\* while another is in flight issues its own api.post at once and leaves the
\* other as it is; a save settles in the step in which its own write
\* completes, whatever the other does; and the write that completes leaves
\* its settings in the backend that took it, so the backend ends with the
\* settings of the write that completed last.
C23_OverlappingSaves ==
  [][\A i \in Slots :
       /\ (ops[i].pc # "post" /\ ops'[i].pc = "post") =>
            /\ ops'[i].log = <<"api.post">>
            /\ ops'[i].during = {j \in Slots : ops[j].pc = "post"}
            /\ \A j \in Slots \ {i} : ops'[j] = ops[j]
       /\ (ops[i].pc = "post" /\ ops'[i].pc = "done") =>
            /\ \A j \in Slots \ {i} : ops'[j] = ops[j]
            /\ (ops'[i].remote = "resolved" /\ ops'[i].resp # ServerErrorResponse) =>
                 remoteStore' = JSONparse(JSONstringify(ops[i].arg)).v
            /\ ops'[i].local = "ok" => localStorage' = JSONstringify(ops[i].arg)]_vars

\* A save invoked while another was in flight has completed its remote write
\* first: the save invoked earlier is still in flight, with other settings
\* than the backend holds now, and will write them when it completes.
C23_Witness ==
  \E i, j \in Slots :
    /\ ops[i].kind = "save" /\ ops[i].pc = "post"
    /\ Done(j, "save") /\ i \in ops[j].during
    /\ ops[j].remote = "resolved" /\ ops[j].resp # ServerErrorResponse
    /\ remoteStore # JSONparse(JSONstringify(ops[i].arg)).v
    /\ remoteStore \in {JSONparse(JSONstringify(s)).v : s \in SaveInputs}

\* The load of slot i was answered by a backend: by the remote resource with
\* a response carrying data, or by localStorage.
Answered(i) ==
  \/ ops[i].local = "ok"
  \/ /\ ops[i].remote = "resolved" /\ ops[i].local = "none"
     /\ ops[i].resp \notin {Null, ServerErrorResponse}

\* C25: when the last save, of settings s, reported success, the load that
\* follows and that a backend answers returns s, whichever backend took the
\* write and whichever answers the read, and whatever older saves left in the
\* backends.
C25_ReadYourWrites ==
  (/\ Done("a", "save") /\ ops["a"].result.success
   /\ Done("b", "load") /\ Answered("b")) =>
    ops["b"].result = normalized

\* ------------------------------------------------------------ properties of the form in use

\* The form data of the component do not pass validateForm.
InvalidForm == hasValidationErrors(validateForm(state.formData))

\* A handler of the component calls saveSettings or testConnection of the
\* service in slot i.
Submits(i) ==
  /\ awaiting[i] = Undef
  /\ awaiting'[i] # Undef
  /\ awaiting'[i].handler \in {"saveSettings", "testConnection"}

\* The calls made to the collaborators for the saves and tests so far.
Submitted == [i \in Slots |-> IF ops[i].kind \in {"save", "test"} THEN ops[i].log ELSE <<>>]

\* C21: no save or test of the service is called for form data on which
\* validateForm reports an error; a button handler that finds such form data
\* stores the errors in validationErrors and changes nothing else; and as long
\* as the form data are invalid and stay as they are, isSaving,
\* isTestingConnection, saveResult, testResult, the remote resource and
\* localStorage stay as they are, whatever validationErrors shows.
C21_InvalidFormNotSubmitted ==
  [][/\ \A i \in Slots : Submits(i) => ~InvalidForm
     /\ refused' # refused =>
          /\ InvalidForm
          /\ ~hasValidationErrors(state.validationErrors)
          /\ state' = [state EXCEPT !.validationErrors = validateForm(state.formData)]
          /\ UNCHANGED <<serviceVars, awaiting, sent, debounceTimeout, tested>>
     /\ (InvalidForm /\ state'.formData = state.formData) =>
          /\ state'.isSaving = state.isSaving
          /\ state'.isTestingConnection = state.isTestingConnection
          /\ state'.saveResult = state.saveResult
          /\ state'.testResult = state.testResult
          /\ remoteStore' = remoteStore
          /\ localStorage' = localStorage
          /\ Submitted' = Submitted]_vars

\* Both buttons were used on an invalid form whose validation was still
\* pending, and the errors of that form are in validationErrors.
C21_Witness ==
  /\ refused = {"saveSettings", "testConnection"}
  /\ debounceTimeout.pending = {state.formData}
  /\ InvalidForm
  /\ state.validationErrors = validateForm(state.formData)
  /\ state.saveResult = Null /\ state.testResult = Null /\ tested = Undef

\* The slots in which a save or a test started by the component is in flight:
\* its handler has not resumed.
InFlight ==
  {i \in Slots : /\ awaiting[i] # Undef
                 /\ awaiting[i].handler \in {"saveSettings", "testConnection"}}

\* C27: with saves and tests started by the buttons only, at most one save or
\* test is in flight: isSaving and isTestingConnection are never both true, at
\* most one handler is suspended on the service, and while the component is
\* mounted the flag of the handler in flight is set and none is set otherwise.
C27_OneInFlight ==
  /\ ~(state.isSaving /\ state.isTestingConnection)
  /\ Cardinality(InFlight) <= 1
  /\ phase = "mounted" =>
       /\ state.isSaving = (\E i \in InFlight : awaiting[i].handler = "saveSettings")
       /\ state.isTestingConnection =
            (\E i \in InFlight : awaiting[i].handler = "testConnection")

\* A save is in flight after a test has come back.
C27_Witness ==
  /\ state.isSaving
  /\ state.testResult # Null
  /\ \E i \in Slots : ops[i].kind = "save" /\ ops[i].pc = "post"

\* render shows the form and not the loading state.
Rendered == phase = "mounted" /\ ~state.isInitializing /\ ~state.isLoading

\* The load started at mount is in flight in slot i: loadSettings of the
\* component has not resumed.
Loading(i) == awaiting[i] # Undef /\ awaiting[i].handler = "loadSettings"

\* The form data loadSettings of the component makes of what the load of
\* slot i returned: the loaded settings, or the defaults for null.
LoadedForm(i) ==
  settingsToFormData(IF Truthy(ops[i].result) THEN ops[i].result
                     ELSE getDefaultSettings)

\* C28: while the component is mounted and its initial load or its
\* initialization timer is pending, the form is not rendered and nothing has
\* been saved, tested or refused; over that time formData changes in one
\* step only, the one in which loadSettings resumes and stores the form made
\* of the load's outcome; and when the form first shows, formData is that form.
C28_LoadBeforeInput ==
  [][/\ (phase = "mounted" /\ ((\E i \in Slots : Loading(i)) \/ initTimeout = "pending")) =>
          /\ ~Rendered
          /\ InFlight = {} /\ refused = {} /\ tested = Undef
          /\ state.saveResult = Null /\ state.testResult = Null
          /\ debounceTimeout.pending = {}
     /\ (~Rendered /\ state'.formData # state.formData) =>
          \E i \in Slots : /\ Loading(i) /\ ~Loading(i)'
                            /\ state'.formData = LoadedForm(i)
     /\ (~Rendered /\ Rendered') =>
          \E i \in Slots : /\ ops[i].kind = "load" /\ ops[i].pc = "done"
                            /\ state'.formData = LoadedForm(i)]_vars

\* The form shows the settings the load returned, or the defaults after a
\* load that returned null, and the user has changed a field since.
C28_Witness ==
  /\ Rendered
  /\ \E i \in Slots : /\ ops[i].kind = "load" /\ ops[i].pc = "done"
                        /\ state.formData = [LoadedForm(i) EXCEPT !.apiKey = "invalid-key"]
                        /\ LoadedForm(i) # InitialState.formData

\* C29: whenever testResult is not null, formData is the form data the test
\* was started with; and a test in flight was started with the form data of
\* the form.
C29_ResultOfShownForm ==
  /\ state.testResult # Null => state.formData = tested
  /\ state.isTestingConnection => state.formData = tested

\* The key and the temperature were typed in, the form was tested and the
\* test came back successful.
C29_Witness ==
  /\ state.testResult # Null
  /\ state.testResult.success
  /\ state.formData = tested
  /\ state.formData.temperature = "0"
  /\ state.formData.apiKey = GoodKey
  /\ debounceTimeout.pending = {}

\* C24: at most one validation is pending and it is the validation of the
\* current form data; a field change leaves exactly the validation of the new
\* form data pending; validationErrors that agree with the form data keep
\* agreeing until the form data change; and, the component staying mounted, a
\* pending validation leads to validationErrors being those of the current
\* form data.
C24_DebouncedValidation ==
  /\ [](/\ Cardinality(debounceTimeout.pending) <= 1
        /\ debounceTimeout.pending \subseteq {state.formData})
  /\ [][/\ (Rendered /\ state'.formData # state.formData) =>
               debounceTimeout'.pending = {state'.formData}
        /\ (/\ state.validationErrors = validateForm(state.formData)
            /\ state'.formData = state.formData) =>
               state'.validationErrors = state.validationErrors]_vars
  /\ (debounceTimeout.pending # {}) ~>
       (\/ /\ debounceTimeout.pending = {}
           /\ state.validationErrors = validateForm(state.formData)
        \/ phase = "unmounted")

\* Two fields were changed one after the other, no button refused the form,
\* no validation is pending and validationErrors holds the errors of the form.
C24_Witness ==
  /\ phase = "mounted"
  /\ state.formData.apiKey = "invalid-key"
  /\ state.formData.temperature = "0"
  /\ debounceTimeout = [timeout |-> state.formData, pending |-> {}]
  /\ refused = {}
  /\ state.validationErrors = validateForm(state.formData)
  /\ hasValidationErrors(state.validationErrors)

\* A result object of a save or a test: success or failure.
IsResult(r) == r # Null /\ r.t = "object" /\ r.success \in BOOLEAN

\* C22: with calls that settle and the component staying mounted, isSaving,
\* isTestingConnection and isLoading, once true, become false again; and in
\* the step in which isSaving or isTestingConnection becomes false, saveResult
\* or testResult is a result object, successful or failed, and not null.
C22_ActionsFinish ==
  /\ state.isSaving ~> (~state.isSaving \/ phase = "unmounted")
  /\ state.isTestingConnection ~>
       (~state.isTestingConnection \/ phase = "unmounted")
  /\ state.isLoading ~> (~state.isLoading \/ phase = "unmounted")
  /\ [][/\ (state.isSaving /\ ~state'.isSaving) => IsResult(state'.saveResult)
        /\ (state.isTestingConnection /\ ~state'.isTestingConnection) =>
             IsResult(state'.testResult)]_vars

\* A save has failed and a test has succeeded, both have finished, and the
\* load before them has finished.
C22_Witness ==
  /\ phase = "mounted"
  /\ ~state.isSaving /\ ~state.isTestingConnection /\ ~state.isLoading
  /\ IsResult(state.saveResult) /\ ~state.saveResult.success
  /\ IsResult(state.testResult) /\ state.testResult.success

====
